---- MODULE Spec2Model ----
(***************************************************************************)
(* Grok Voice call page (src/src/app/page.tsx): the call lifecycle, the    *)
(* handshake over the realtime WebSocket, microphone capture and audio     *)
(* playback, as one state machine.                                         *)
(*                                                                         *)
(* Every handler of the page is a function from the state record to the    *)
(* state record (StartCall, StopCallSync, OnMessage, ...), so that a       *)
(* handler that calls another one is their composition; an action applies  *)
(* one whole handler to the current state.  Each call attempt i owns the   *)
(* objects it creates: AudioContext i, MediaStream i and WebSocket i.      *)
(***************************************************************************)
EXTENDS Integers, Sequences, FiniteSets, Bags, TLC

\* ---------------------------------------------------------------- bounds
MaxAttempts == 3      \* startCall invocations in one run
MaxCalls == 2         \* of them, those that may go on to a connection
MaxTimers == 2        \* cooldown timers pending at one time
MaxChunks == 2        \* audio deltas delivered in one run
MaxBytes == 4         \* decoded bytes of one audio delta
MaxTexts == 1         \* transcript events delivered in one run
MaxClock == 2         \* clock ticks in one run
MaxUnknown == 1       \* unrecognized messages delivered in one run
MaxMalformed == 1     \* malformed audio deltas delivered in one run
Grid == 100           \* a sample is a whole number of 1/Grid
MaxDeltas == 3        \* transcript events of a call that only transcribes
MaxGap == 4           \* clock ticks of such a call (2000 ms)
MaxRate == 30         \* sample rates of an audio context, from 1 on
MaxBlock == 3         \* samples in one input block of the worklet
MaxBlocks == 4        \* process() calls on one worklet

\* Time is counted in ticks of 500 ms, and an audio context renders one
\* sample per tick.  The merge window of user transcripts, 1500 ms:
MergeWindow == 3

NULL == -1
Attempts == 1 .. MaxAttempts

\* ----------------------------------------------------------------- state
VARIABLES
  \* React state of Page
  callState, statusLine, muted, speaker, errorText, callStartedAt,
  transcriptLines,
  \* refs of Page
  wsRef, audioContextRef, mediaStreamRef, workletNodeRef, audioQueue,
  isPlaying, nextPlayTime, isSessionConfigured, lastUserTranscriptAt,
  sessionConfig,
  \* the browser: async positions and the objects the page created
  hasGetUserMedia, pc, closure, readyState, ctxState, ctxBase, closeWaiter,
  tracks, captures, sources, timers, clock,
  \* history
  asked, rcvd, cycle, outbox, accepted, sched, released, releaseLog, budget,
  \* one sample on its way through float32ToBase64 and base64ToFloat32
  codec,
  \* one AudioProcessor of the capture worklet
  processor

vars == << callState, statusLine, muted, speaker, errorText, callStartedAt,
           transcriptLines, wsRef, audioContextRef, mediaStreamRef,
           workletNodeRef, audioQueue, isPlaying, nextPlayTime,
           isSessionConfigured, lastUserTranscriptAt, sessionConfig,
           hasGetUserMedia, pc, closure, readyState, ctxState, ctxBase,
           closeWaiter, tracks, captures, sources, timers, clock, asked, rcvd,
           cycle, outbox,
           accepted, sched, released, releaseLog, budget, codec,
           processor >>

\* The current state as one record, and the step that installs a record.
\* outbox holds what the step under way has sent, and releaseLog the
\* release calls it has made, in the order made: they start empty.
Cur ==
  [ callState |-> callState, statusLine |-> statusLine, muted |-> muted,
    speaker |-> speaker, errorText |-> errorText,
    callStartedAt |-> callStartedAt, transcriptLines |-> transcriptLines,
    wsRef |-> wsRef, audioContextRef |-> audioContextRef,
    mediaStreamRef |-> mediaStreamRef, workletNodeRef |-> workletNodeRef,
    audioQueue |-> audioQueue, isPlaying |-> isPlaying,
    nextPlayTime |-> nextPlayTime,
    isSessionConfigured |-> isSessionConfigured,
    lastUserTranscriptAt |-> lastUserTranscriptAt,
    sessionConfig |-> sessionConfig, hasGetUserMedia |-> hasGetUserMedia,
    pc |-> pc, closure |-> closure, readyState |-> readyState,
    ctxState |-> ctxState, ctxBase |-> ctxBase,
    closeWaiter |-> closeWaiter, tracks |-> tracks,
    captures |-> captures, sources |-> sources, timers |-> timers,
    clock |-> clock, asked |-> asked, rcvd |-> rcvd, cycle |-> cycle,
    outbox |-> << >>,
    accepted |-> accepted, sched |-> sched, released |-> released,
    releaseLog |-> << >>,
    budget |-> budget ]

Apply(n) ==
  /\ callState' = n.callState
  /\ statusLine' = n.statusLine
  /\ muted' = n.muted
  /\ speaker' = n.speaker
  /\ errorText' = n.errorText
  /\ callStartedAt' = n.callStartedAt
  /\ transcriptLines' = n.transcriptLines
  /\ wsRef' = n.wsRef
  /\ audioContextRef' = n.audioContextRef
  /\ mediaStreamRef' = n.mediaStreamRef
  /\ workletNodeRef' = n.workletNodeRef
  /\ audioQueue' = n.audioQueue
  /\ isPlaying' = n.isPlaying
  /\ nextPlayTime' = n.nextPlayTime
  /\ isSessionConfigured' = n.isSessionConfigured
  /\ lastUserTranscriptAt' = n.lastUserTranscriptAt
  /\ sessionConfig' = n.sessionConfig
  /\ hasGetUserMedia' = n.hasGetUserMedia
  /\ pc' = n.pc
  /\ closure' = n.closure
  /\ readyState' = n.readyState
  /\ ctxState' = n.ctxState
  /\ ctxBase' = n.ctxBase
  /\ closeWaiter' = n.closeWaiter
  /\ tracks' = n.tracks
  /\ captures' = n.captures
  /\ sources' = n.sources
  /\ timers' = n.timers
  /\ clock' = n.clock
  /\ asked' = n.asked
  /\ rcvd' = n.rcvd
  /\ cycle' = n.cycle
  /\ outbox' = n.outbox
  /\ accepted' = n.accepted
  /\ sched' = n.sched
  /\ released' = n.released
  /\ releaseLog' = n.releaseLog
  /\ budget' = n.budget
  /\ UNCHANGED << codec, processor >>

Spend(s, what) == [s EXCEPT !.budget[what] = @ - 1]

\* ---------------------------------------------------- sending, teardown
\* ws.send(...) on connection w: the message goes out when w is OPEN.
Send(s, w, msg) ==
  IF s.readyState[w] = "OPEN"
    THEN [s EXCEPT !.outbox = Append(@, [ws |-> w, type |-> msg])]
    ELSE s

\* stopCall after its await: the state updates at the end (lines 610-622).
StopCallFinish(s, silent) ==
  LET a == [s EXCEPT !.callStartedAt = NULL, !.muted = FALSE]
  IN  IF silent
        THEN a
        ELSE [a EXCEPT !.callState = "ended", !.statusLine = "Call ended",
                       !.timers = @ + 1]

\* The release steps of stopCall, in the order of the code; `released`
\* counts the release calls made on each resource.
ReleaseSteps == {"ws", "node", "tracks", "ctx"}
Release(s, kind, id) ==
  [s EXCEPT !.released = @ (+) SetToBag({<< kind, id >>}),
            !.releaseLog = Append(@, << kind, id >>)]

\* stopCall as it would be if it left the refs in place.
KeepRefs(s) ==
  [s EXCEPT !.isSessionConfigured = FALSE, !.sessionConfig = NULL,
            !.audioQueue = << >>, !.isPlaying = FALSE,
            !.nextPlayTime = 0]

\* Lines 580-590: the refs and the playback state are cleared.
ClearRefs(s) ==
  [s EXCEPT !.wsRef = NULL, !.mediaStreamRef = NULL,
            !.audioContextRef = NULL, !.workletNodeRef = NULL,
            !.isSessionConfigured = FALSE, !.sessionConfig = NULL,
            !.audioQueue = << >>, !.isPlaying = FALSE,
            !.nextPlayTime = 0]

\* Lines 592-596: ws.close() on an open connection; `failed`: it throws.
CloseTransport(s, ws, failed) ==
  IF ws # NULL /\ s.readyState[ws] = "OPEN"
    THEN LET a == Release(s, "ws", ws)
         IN  IF failed THEN a ELSE [a EXCEPT !.readyState[ws] = "CLOSING"]
    ELSE s

\* Lines 598-600: workletNode?.disconnect().
DisconnectNode(s, workletNode, failed) ==
  IF workletNode # NULL
    THEN LET a == Release(s, "node", workletNode)
         IN  IF failed
               THEN a
               ELSE [a EXCEPT !.captures[workletNode].connected = FALSE]
    ELSE s

\* Lines 602-604: every track of the stream is stopped.
StopTracks(s, stream, failed) ==
  IF stream # NULL
    THEN LET a == Release(s, "tracks", stream)
         IN  IF failed THEN a ELSE [a EXCEPT !.tracks[stream] = "stopped"]
    ELSE s

\* Lines 606-622: await audioContext?.close(), then the state update.
\* With no audio context, or when close() fails, the await resumes in the
\* same turn.
CloseContext(s, audioContext, silent, failed) ==
  IF audioContext # NULL
    THEN LET a == Release(s, "ctx", audioContext)
         IN  IF ~failed /\ a.ctxState[audioContext] = "running"
               THEN [a EXCEPT !.ctxState[audioContext] = "closing",
                              !.closeWaiter[audioContext] =
                                 IF silent THEN "silent" ELSE "user"]
               ELSE StopCallFinish(a, silent)
    ELSE StopCallFinish(s, silent)

\* stopCall as it would be with one try block around all its release
\* steps: the first step that throws ends the function.
StopCallPropagating(s, silent, fails) ==
  LET ws == s.wsRef
      stream == s.mediaStreamRef
      audioContext == s.audioContextRef
      workletNode == s.workletNodeRef
      a == ClearRefs(s)
      b == CloseTransport(a, ws, "ws" \in fails)
      c == DisconnectNode(b, workletNode, "node" \in fails)
      d == StopTracks(c, stream, "tracks" \in fails)
  IN  IF "ws" \in fails /\ b # a THEN b
      ELSE IF "node" \in fails /\ c # b THEN c
      ELSE IF "tracks" \in fails /\ d # c THEN d
      ELSE IF "ctx" \in fails /\ audioContext # NULL
             THEN Release(d, "ctx", audioContext)
      ELSE CloseContext(d, audioContext, silent, FALSE)

\* stopCall as it would be if it stopped the tracks before it disconnected
\* the capture node.
StopCallTracksFirst(s, silent, fails) ==
  LET ws == s.wsRef
      stream == s.mediaStreamRef
      audioContext == s.audioContextRef
      workletNode == s.workletNodeRef
      a == ClearRefs(s)
      b == CloseTransport(a, ws, "ws" \in fails)
      c == StopTracks(b, stream, "tracks" \in fails)
      d == DisconnectNode(c, workletNode, "node" \in fails)
  IN  CloseContext(d, audioContext, silent, "ctx" \in fails)

\* stopCall (lines 574-623) up to its await; `fails` are the release steps
\* that throw.  Each step is in a try block of its own.
StopCall(s, silent, fails) ==
  LET ws == s.wsRef
      stream == s.mediaStreamRef
      audioContext == s.audioContextRef
      workletNode == s.workletNodeRef
      a == ClearRefs(s)
      b == CloseTransport(a, ws, "ws" \in fails)
      c == DisconnectNode(b, workletNode, "node" \in fails)
      d == StopTracks(c, stream, "tracks" \in fails)
  IN  CloseContext(d, audioContext, silent, "ctx" \in fails)

\* stopCall when no release step throws.
StopCallSync(s, silent) == StopCall(s, silent, {})

\* ------------------------------------------------------------ startCall
\* startCall as it would be if it sent the session request before it asked
\* for the microphone.
StartCallSessionFirst(s, i) ==
  LET a == [s EXCEPT !.errorText = "none", !.transcriptLines = << >>]
  IN  [a EXCEPT !.callState = "connecting",
                !.statusLine = "Creating session",
                !.ctxState[i] = "running",
                !.ctxBase[i] = s.clock,
                !.audioContextRef = i,
                !.closure[i] = [muted |-> s.muted, speaker |-> s.speaker],
                !.pc[i] = "cred"]

\* startCall up to its first await (lines 226-261).
StartCall(s, i) ==
  LET a == [s EXCEPT !.errorText = "none", !.transcriptLines = << >>]
  IN  IF ~s.hasGetUserMedia
        THEN [a EXCEPT !.callState = "error",
                       !.statusLine = "Unsupported browser",
                       !.errorText = "no getUserMedia",
                       !.pc[i] = "done"]
        ELSE [a EXCEPT !.callState = "connecting",
                       !.statusLine = "Requesting microphone",
                       !.ctxState[i] = "running",
                       !.ctxBase[i] = s.clock,
                       !.audioContextRef = i,
                       !.closure[i] = [muted |-> s.muted, speaker |-> s.speaker],
                       !.pc[i] = "mic"]

\* The catch block of startCall (lines 495-502).
StartCallCatch(s, i, message) ==
  StopCallSync([s EXCEPT !.callState = "error",
                         !.statusLine = "Failed to connect",
                         !.errorText = message,
                         !.pc[i] = "done"], TRUE)

\* getUserMedia resolved: lines 262-271, up to the await of the fetch.
MicGranted(s, i) ==
  [s EXCEPT !.mediaStreamRef = i, !.tracks[i] = "live",
            !.statusLine = "Creating session", !.pc[i] = "cred"]

\* The session request answered with a credential: lines 282-311.
SessionCreated(s, i) ==
  [s EXCEPT !.sessionConfig = i, !.isSessionConfigured = FALSE,
            !.statusLine = "Connecting to Grok",
            !.readyState[i] = "CONNECTING", !.wsRef = i, !.pc[i] = "done"]

\* ------------------------------------------------------------ transport
\* ws.onopen (lines 308-311).
OnOpen(s, w) == [s EXCEPT !.statusLine = "Connected, initializing"]

\* ws.onerror (lines 480-485).
OnError(s, w) ==
  [s EXCEPT !.callState = "error", !.statusLine = "Connection error",
            !.errorText = "Failed to connect to voice service"]

\* ws.onclose as it would be if it tore the call down for whatever
\* connection closes.
OnCloseUnguarded(s, w) == StopCallSync(s, TRUE)

\* ws.onclose (lines 487-494).
OnClose(s, w) == IF s.wsRef = w THEN StopCallSync(s, TRUE) ELSE s

\* ----------------------------------------------------------------- codec
Max(a, b) == IF a >= b THEN a ELSE b

\* A sample of a Float32Array is x / Grid; a PCM16 sample is a pair of
\* bytes, low byte first; a decoded sample is y / 32768.
NoSample == [stage |-> "none", x |-> 0, bytes |-> << >>, y |-> 0]

\* The quotient of a by b (b > 0) with the fraction cut off, as the store
\* into an Int16Array element cuts it off.
Trunc(a, b) == IF a >= 0 THEN a \div b ELSE -((-a) \div b)

\* ToInt16: the value modulo 2^16, read as a signed number.
ToInt16(n) == ((n + 32768) % 65536) - 32768

\* The two bytes of an Int16Array element (Uint8Array over its buffer).
BytesOf(n) == << (n % 65536) % 256, (n % 65536) \div 256 >>

\* The Int16Array element over two bytes.
Int16Of(bytes) == ToInt16(bytes[1] + 256 * bytes[2])

\* float32ToBase64 as it would be if it scaled the sample as it is given.
Float32ToBase64Unclamped(x) ==
  BytesOf(ToInt16(IF x < 0 THEN Trunc(x * 32768, Grid)
                           ELSE Trunc(x * 32767, Grid)))

\* float32ToBase64 (lines 166-178) on one sample x / Grid: clamped to
\* [-1, 1], scaled by 32768 below zero and by 32767 from zero on, stored
\* as Int16.  btoa and atob carry the bytes unchanged.
Float32ToBase64(x) ==
  LET s == Max(-Grid, IF x <= Grid THEN x ELSE Grid)
  IN  BytesOf(ToInt16(IF s < 0 THEN Trunc(s * 32768, Grid)
                               ELSE Trunc(s * 32767, Grid)))

\* base64ToFloat32 (lines 151-163) on the bytes of one sample: the
\* numerator y of int16 / 32768.
SampleOfBase64(bytes) == Int16Of(bytes)

\* An audio delta as it arrives: the empty string, text that is not base64,
\* text that decodes to no byte at all (white space), or base64 of `bytes`
\* bytes.
Deltas ==
  {[form |-> f, bytes |-> 0] : f \in {"empty", "invalid", "blank"}}
    \cup {[form |-> "pcm", bytes |-> n] : n \in 1 .. MaxBytes}

\* base64ToFloat32 as it would be if it took whatever bytes it is given,
\* leaving out a last odd byte.
Base64ToFloat32Lenient(delta) ==
  [throws |-> FALSE, samples |-> delta.bytes \div 2]

\* base64ToFloat32 (lines 151-163): the number of samples decoded; it
\* throws when atob rejects the text or the bytes are no whole number of
\* 16-bit samples.
Base64ToFloat32(delta) ==
  IF delta.form = "invalid" \/ delta.bytes % 2 = 1
    THEN [throws |-> TRUE, samples |-> 0]
    ELSE [throws |-> FALSE, samples |-> delta.bytes \div 2]


\* ctx.currentTime of audio context c.
CurrentTime(s, c) == s.clock - s.ctxBase[c]

\* playAudioQueue as it would be if every chunk started at the current
\* time, whatever the cursor says.
PlayAudioQueueAtOnce(s) ==
  LET ctx == s.audioContextRef IN
  IF ctx = NULL \/ Len(s.audioQueue) = 0
    THEN [s EXCEPT !.isPlaying = FALSE]
    ELSE
      LET audioData == Head(s.audioQueue)
          a == [s EXCEPT !.isPlaying = TRUE, !.audioQueue = Tail(@)]
          now == CurrentTime(s, ctx)
      IN  IF audioData.samples = 0
            THEN a
            ELSE [a EXCEPT
                    !.nextPlayTime = now + audioData.samples,
                    !.sources = @ \cup {[id |-> audioData.id, ctx |-> ctx]},
                    !.sched = Append(@, [id |-> audioData.id, ctx |-> ctx,
                                         now |-> now, start |-> now,
                                         duration |-> audioData.samples])]

\* playAudioQueue (lines 181-210).  createBuffer rejects a length of zero:
\* the exception leaves the chunk taken and the draining flag set.
PlayAudioQueue(s) ==
  LET ctx == s.audioContextRef IN
  IF ctx = NULL \/ Len(s.audioQueue) = 0
    THEN [s EXCEPT !.isPlaying = FALSE]
    ELSE
      LET audioData == Head(s.audioQueue)
          a == [s EXCEPT !.isPlaying = TRUE, !.audioQueue = Tail(@)]
          now == CurrentTime(s, ctx)
          startTime == Max(now, s.nextPlayTime)
      IN  IF audioData.samples = 0
            THEN a
            ELSE [a EXCEPT
                    !.nextPlayTime = startTime + audioData.samples,
                    !.sources = @ \cup {[id |-> audioData.id, ctx |-> ctx]},
                    !.sched = Append(@, [id |-> audioData.id, ctx |-> ctx,
                                         now |-> now, start |-> startTime,
                                         duration |-> audioData.samples])]

\* source.onended (lines 203-209).
OnEnded(s) ==
  IF Len(s.audioQueue) > 0
    THEN PlayAudioQueue(s)
    ELSE [s EXCEPT !.isPlaying = FALSE]

\* queueAudio (lines 213-223), as created by the render whose startCall
\* opened connection w: `speaker` is that render's value.
QueueAudio(s, w, delta) ==
  IF ~s.closure[w].speaker
    THEN s
    ELSE
      LET audioData == Base64ToFloat32(delta) IN
      IF audioData.throws
        THEN s
        ELSE
          LET a == [s EXCEPT
                      !.accepted = @ + 1,
                      !.audioQueue =
                         Append(@, [id |-> s.accepted + 1,
                                    samples |-> audioData.samples])]
          IN  IF ~a.isPlaying THEN PlayAudioQueue(a) ELSE a

\* --------------------------------------------------------------- capture
\* startAudioCapture up to its await (lines 506-544), called by the message
\* handler of connection w.
StartAudioCapture(s, w) ==
  IF s.audioContextRef = NULL \/ s.mediaStreamRef = NULL \/ s.wsRef = NULL
    THEN s
    ELSE [s EXCEPT !.captures =
            Append(@, [ws |-> s.wsRef, ctx |-> s.audioContextRef,
                       stream |-> s.mediaStreamRef,
                       muted |-> s.closure[w].muted,
                       phase |-> "loading", connected |-> FALSE])]

\* chunkSizeSamples (line 514) for an audio context of sample rate `rate`;
\* Math.round takes a half upward.
ChunkSizeSamples(rate) == Max(1, (2 * rate + 10) \div 20)

\* new AudioProcessor() (lines 518-522).  `inputs` and `posted` are the
\* blocks process() was given and the frames it posted, in order.
NewProcessor(bufferSize) ==
  [bufferSize |-> bufferSize, buffer |-> << >>, posted |-> << >>,
   inputs |-> << >>]

\* No AudioProcessor in view.
NoProcessor == NewProcessor(0)

\* The loop of process() (lines 529-532): splice(0, bufferSize) and
\* postMessage while the buffer holds a frame.
RECURSIVE Drain(_)
Drain(p) ==
  IF Len(p.buffer) >= p.bufferSize
    THEN Drain([p EXCEPT
                 !.posted = Append(@, SubSeq(p.buffer, 1, p.bufferSize)),
                 !.buffer = SubSeq(p.buffer, p.bufferSize + 1, Len(p.buffer))])
    ELSE p

\* process(inputs) as it would be if it put the block in the place of the
\* buffer.
ProcessDropping(p, connected, block) ==
  IF connected
    THEN Drain([p EXCEPT !.buffer = block,
                         !.inputs = Append(@, block)])
    ELSE p

\* process(inputs) (lines 524-535); `connected` tells whether inputs[0]
\* has a channel, `block` is that channel.
Process(p, connected, block) ==
  IF connected
    THEN Drain([p EXCEPT !.buffer = @ \o block,
                         !.inputs = Append(@, block)])
    ELSE p

\* startAudioCapture after addModule (lines 545-567): the node is created
\* and stored; on a context that no longer runs the creation may throw.
CaptureStarted(s, k, ok) ==
  IF ok
    THEN [s EXCEPT !.captures[k].phase = "running",
                   !.captures[k].connected = TRUE,
                   !.workletNodeRef = k]
    ELSE [s EXCEPT !.captures[k].phase = "failed"]

\* workletNode.port.onmessage of capture k (lines 551-563): `ws` and `muted`
\* are the values startAudioCapture saw.
OnFrame(s, k) ==
  LET cap == s.captures[k] IN
  IF s.readyState[cap.ws] = "OPEN" /\ ~cap.muted /\ s.isSessionConfigured
    THEN Send(s, cap.ws, "input_audio_buffer.append")
    ELSE s

\* -------------------------------------------------------------- messages
\* The inbound messages: `type` is "" for a message that is no JSON, no
\* object or carries no string type.
Texts == {<< >>, <<"a">>, <<"b">>}

Messages ==
  {[type |-> ty, delta |-> [form |-> "empty", bytes |-> 0], text |-> << >>] :
      ty \in {"", "conversation.created", "session.updated",
              "input_audio_buffer.speech_started",
              "input_audio_buffer.speech_stopped", "response.created",
              "response.done", "some.other.event"}}
  \cup {[type |-> "response.output_audio.delta", delta |-> d, text |-> << >>] :
          d \in Deltas}
  \cup {[type |-> ty, delta |-> [form |-> "empty", bytes |-> 0], text |-> x] :
          ty \in {"response.output_audio_transcript.delta",
                  "conversation.item.input_audio_transcription.completed",
                  "error"},
          x \in Texts}

Last(q) == q[Len(q)]
Front(q) == SubSeq(q, 1, Len(q) - 1)

RECURSIVE TrimLeft(_)
TrimLeft(x) == IF x # << >> /\ Head(x) = " " THEN TrimLeft(Tail(x)) ELSE x
RECURSIVE TrimRight(_)
TrimRight(x) == IF x # << >> /\ Last(x) = " " THEN TrimRight(Front(x)) ELSE x
Trim(x) == TrimRight(TrimLeft(x))

\* The update function of lines 406-418 as it would be if it joined the
\* pieces with a space, the way user completions are joined.
AssistantDeltaSpaced(prev, delta) ==
  IF prev # << >> /\ Last(prev).role = "assistant"
    THEN Append(Front(prev),
                [role |-> "assistant",
                 text |-> Last(prev).text \o <<" ">> \o delta])
    ELSE Append(prev, [role |-> "assistant", text |-> delta])

\* The update function of lines 406-418.
AssistantDelta(prev, delta) ==
  IF prev # << >> /\ Last(prev).role = "assistant"
    THEN Append(Front(prev),
                [role |-> "assistant", text |-> Last(prev).text \o delta])
    ELSE Append(prev, [role |-> "assistant", text |-> delta])

\* The update function of lines 427-443; `lastAt` is what the ref holds
\* when the function runs.
UserCompleted(prev, transcript, now, lastAt) ==
  IF /\ prev # << >>
     /\ Last(prev).role = "user"
     /\ lastAt # NULL
     /\ now - lastAt < MergeWindow
    THEN Append(Front(prev),
                [role |-> "user",
                 text |-> Trim(Last(prev).text \o <<" ">> \o transcript)])
    ELSE Append(prev, [role |-> "user", text |-> transcript])

\* case "session.updated" (lines 364-393).
OnSessionUpdated(s, w) ==
  IF s.isSessionConfigured
    THEN s
    ELSE
      LET a == [s EXCEPT !.isSessionConfigured = TRUE,
                         !.callState = "in_call",
                         !.callStartedAt = s.clock,
                         !.statusLine = "In call"]
          b == Send(a, w, "input_audio_buffer.commit")
          c == Send(b, w, "conversation.item.create")
          d == Send(c, w, "response.create")
      IN  StartAudioCapture(d, w)

\* case "error" as it would be if it ended the call the way ws.onerror does.
OnRemoteErrorFatal(s, m) ==
  [s EXCEPT !.callState = "error", !.statusLine = "Connection error",
            !.errorText =
               IF m.text = << >> THEN "Unknown error from xAI"
                                 ELSE "remote error"]

\* case "error" (lines 465-473): the text shown is error.message, or a
\* default text when the event carries none.
OnRemoteError(s, m) ==
  [s EXCEPT !.errorText =
     IF m.text = << >> THEN "Unknown error from xAI" ELSE "remote error"]

\* The switch of ws.onmessage (lines 330-473).  `eager` tells whether
\* React runs a queued update function at once or at the next render.
OnEvent(s, w, m, eager) ==
  CASE m.type = "conversation.created" ->
         IF s.sessionConfig = NULL
           THEN s
           ELSE [Send(s, w, "session.update") EXCEPT !.asked[w] = TRUE]
    [] m.type = "session.updated" -> OnSessionUpdated(s, w)
    [] m.type = "response.output_audio.delta" ->
         IF m.delta.form = "empty" THEN s ELSE QueueAudio(s, w, m.delta)
    [] m.type = "response.output_audio_transcript.delta" ->
         IF m.text = << >>
           THEN s
           ELSE [s EXCEPT !.transcriptLines = AssistantDelta(@, m.text)]
    [] m.type = "conversation.item.input_audio_transcription.completed" ->
         IF m.text = << >>
           THEN s
           ELSE [s EXCEPT
                  !.transcriptLines =
                     UserCompleted(@, m.text, s.clock,
                                   IF eager THEN s.lastUserTranscriptAt
                                            ELSE s.clock),
                  !.lastUserTranscriptAt = s.clock]
    [] m.type = "input_audio_buffer.speech_started" ->
         [s EXCEPT !.statusLine = "Listening"]
    [] m.type = "input_audio_buffer.speech_stopped" ->
         [s EXCEPT !.statusLine = "Processing"]
    [] m.type = "response.created" ->
         [s EXCEPT !.statusLine = "Grok is speaking"]
    [] m.type = "response.done" -> [s EXCEPT !.statusLine = "In call"]
    [] m.type = "error" -> OnRemoteError(s, m)
    [] OTHER -> s

\* The messages the handler leaves alone: those it cannot parse to an
\* object with a string type (lines 315-322) and those of a type the switch
\* has no case for.
Unrecognized == {"", "some.other.event"}

\* ws.onmessage as it would be if it took every message it does not
\* recognize for an error event.
OnMessageDefaulting(s, w, m, eager) ==
  OnEvent(s, w,
          IF m.type \in Unrecognized THEN [m EXCEPT !.type = "error"] ELSE m,
          eager)

\* ws.onmessage of connection w (lines 313-478).
OnMessage(s, w, m, eager) ==
  IF m.type = "" THEN s ELSE OnEvent(s, w, m, eager)

\* ------------------------------------------------------------- controls
\* toggleMute (lines 625-630).
ToggleMute(s) == [s EXCEPT !.muted = ~@]

\* toggleSpeaker (lines 632-641).
ToggleSpeaker(s) ==
  [s EXCEPT !.speaker = ~@,
            !.audioQueue = IF s.speaker THEN << >> ELSE @]

\* The timer of stopCall as it would be if it only restored the status line.
CooldownKeepsState(s) == [s EXCEPT !.statusLine = "Ready", !.timers = @ - 1]

\* The timer armed by stopCall (lines 618-621).
CooldownFired(s) ==
  [s EXCEPT !.callState = "idle", !.statusLine = "Ready", !.timers = @ - 1]

\* ---------------------------------------------------------------- steps
\* A run is bounded by the audio deltas, transcript events and clock ticks
\* it may hold, and by the kinds of event that occur in it at all; the runs
\* explored are those of each of these scenarios.
Scenario(a, c, x, k, hangups, faults, frames, toggles, other) ==
  [attempts |-> a, chunks |-> c, texts |-> x, ticks |-> k,
   hangups |-> hangups, faults |-> faults, frames |-> frames,
   toggles |-> toggles, other |-> other, throws |-> FALSE, unknown |-> 0,
   malformed |-> 0]

\* Hang up and call again, with the microphone capturing.
Restart ==
  Scenario(MaxCalls, 0, 0, 0, TRUE, FALSE, TRUE, FALSE, FALSE)
\* One call that plays audio, with the mute and speaker buttons in use.
Playback ==
  Scenario(1, MaxChunks, 0, MaxClock, FALSE, FALSE, TRUE, TRUE, FALSE)
\* One call that plays audio and receives malformed audio deltas.
Dropping ==
  [Scenario(1, MaxChunks, 0, 0, FALSE, FALSE, FALSE, FALSE, FALSE)
     EXCEPT !.malformed = MaxMalformed]
\* One call in which the device, the session request or the connection
\* fails, or the remote side closes the connection.
Faults ==
  Scenario(1, 0, 0, 0, TRUE, TRUE, TRUE, FALSE, FALSE)
\* The same, and a release step of stopCall may throw.
Throwing == [Faults EXCEPT !.throws = TRUE]
\* One call that receives transcripts, status events and unknown events.
Transcript ==
  [Scenario(1, 0, MaxTexts, MaxClock, FALSE, FALSE, FALSE, FALSE, TRUE)
     EXCEPT !.unknown = MaxUnknown]
\* Calls that only go through the handshake.
Handshakes ==
  Scenario(MaxCalls, 0, 0, 0, FALSE, FALSE, FALSE, FALSE, FALSE)
\* One call that the user hangs up, with no call after it.
HangUp ==
  Scenario(1, 0, 0, 0, TRUE, FALSE, TRUE, FALSE, FALSE)

Scenarios == {Restart, Playback, Dropping, Faults, Transcript}

\* The page as mounted (lines 72-98).
Mounted(scenarios) ==
  /\ callState = "idle"
  /\ statusLine = "Ready"
  /\ muted = FALSE
  /\ speaker = TRUE
  /\ errorText = "none"
  /\ callStartedAt = NULL
  /\ transcriptLines = << >>
  /\ wsRef = NULL
  /\ audioContextRef = NULL
  /\ mediaStreamRef = NULL
  /\ workletNodeRef = NULL
  /\ audioQueue = << >>
  /\ isPlaying = FALSE
  /\ nextPlayTime = 0
  /\ isSessionConfigured = FALSE
  /\ lastUserTranscriptAt = NULL
  /\ sessionConfig = NULL
  /\ hasGetUserMedia \in BOOLEAN
  /\ pc = [i \in Attempts |-> "new"]
  /\ closure = [i \in Attempts |-> [muted |-> FALSE, speaker |-> TRUE]]
  /\ readyState = [i \in Attempts |-> "none"]
  /\ ctxState = [i \in Attempts |-> "none"]
  /\ ctxBase = [i \in Attempts |-> 0]
  /\ closeWaiter = [i \in Attempts |-> "none"]
  /\ tracks = [i \in Attempts |-> "none"]
  /\ captures = << >>
  /\ sources = {}
  /\ timers = 0
  /\ clock = 0
  /\ asked = [i \in Attempts |-> FALSE]
  /\ rcvd = [i \in Attempts |-> FALSE]
  /\ cycle = [i \in Attempts |-> "none"]
  /\ outbox = << >>
  /\ accepted = 0
  /\ sched = << >>
  /\ released = EmptyBag
  /\ releaseLog = << >>
  /\ budget \in scenarios

Start(scenarios) ==
  Mounted(scenarios) /\ codec = NoSample /\ processor = NoProcessor

Init == Start(Scenarios)

NextAttempt == Cardinality({i \in Attempts : pc[i] # "new"}) + 1

\* The call button (lines 854-878): it starts a call in idle, ended and
\* error, and hangs up otherwise.
PressCall ==
  /\ callState \in {"idle", "ended", "error"}
  /\ NextAttempt <= budget.attempts
  /\ Apply(StartCall(Cur, NextAttempt))

PendingTimers ==
  timers + Cardinality({c \in Attempts : closeWaiter[c] = "user"})

\* The release steps that may throw in a run: at most one in a stopCall,
\* in the runs where they throw at all.
Failures == IF budget.throws THEN {{}} \cup {{x} : x \in ReleaseSteps} ELSE {{}}

PressHangUpOf(fails) ==
  /\ callState \notin {"idle", "ended", "error"}
  /\ budget.hangups
  /\ PendingTimers < MaxTimers
  /\ Apply(StopCall(Cur, FALSE, fails))

PressHangUp == \E fails \in Failures : PressHangUpOf(fails)

GetUserMediaResolves ==
  \E i \in Attempts :
    /\ pc[i] = "mic"
    /\ Apply(MicGranted(Cur, i))

GetUserMediaRejectsOf(i) ==
  /\ pc[i] = "mic"
  /\ budget.faults
  /\ Apply(StartCallCatch(Cur, i, "device error"))

GetUserMediaRejects == \E i \in Attempts : GetUserMediaRejectsOf(i)

SessionRequestSucceeds ==
  \E i \in Attempts :
    /\ pc[i] = "cred"
    /\ Apply(SessionCreated(Cur, i))

\* The session route answered with an error status or without a credential
\* (lines 282-286).
SessionRequestFailsOf(i) ==
  /\ pc[i] = "cred"
  /\ budget.faults
  /\ Apply(StartCallCatch(Cur, i, "session error"))

SessionRequestFails == \E i \in Attempts : SessionRequestFailsOf(i)

\* audioContext.close() settles: the stopCall awaiting it resumes.
ContextClosedOf(c) ==
  /\ ctxState[c] = "closing"
  /\ Apply(StopCallFinish(
             [Cur EXCEPT !.ctxState[c] = "closed", !.closeWaiter[c] = "none"],
             closeWaiter[c] = "silent"))

ContextClosed == \E c \in Attempts : ContextClosedOf(c)

SocketOpens ==
  \E w \in Attempts :
    /\ readyState[w] = "CONNECTING"
    /\ Apply(OnOpen([Cur EXCEPT !.readyState[w] = "OPEN"], w))

\* The connection fails or is dropped: an error event, then a close event.
SocketFailsOf(w) ==
  /\ readyState[w] \in {"CONNECTING", "OPEN"}
  /\ budget.faults
  /\ Apply(OnClose(OnError([Cur EXCEPT !.readyState[w] = "CLOSED"], w), w))

SocketFails == \E w \in Attempts : SocketFailsOf(w)

\* The connection is closed cleanly: by the remote side, or as the end of
\* the closing handshake that ws.close() began.
SocketClosesOf(w) ==
  /\ readyState[w] = "CLOSING" \/ (readyState[w] = "OPEN" /\ budget.faults)
  /\ Apply(OnClose([Cur EXCEPT !.readyState[w] = "CLOSED"], w))

SocketCloses == \E w \in Attempts : SocketClosesOf(w)

TimerFires ==
  /\ timers > 0
  /\ Apply(CooldownFired(Cur))

\* A message event on connection w: only an OPEN connection delivers one,
\* and the service sends session.updated, once or more often, to a
\* connection that has sent it a session.update (asked[w]).
Transcripts == {"response.output_audio_transcript.delta",
                "conversation.item.input_audio_transcription.completed"}

\* An audio delta whose text is no base64 or decodes to an odd number of
\* bytes.
Malformed(m) ==
  /\ m.type = "response.output_audio.delta"
  /\ m.delta.form = "invalid" \/ m.delta.bytes % 2 = 1

Deliverable(w, m) ==
  CASE m.type = "conversation.created" -> TRUE
    [] m.type = "session.updated" -> asked[w]
    [] Malformed(m) -> budget.malformed > 0
    [] m.type = "response.output_audio.delta" -> budget.chunks > 0
    [] m.type \in Transcripts -> budget.texts > 0
    [] m.type \in Unrecognized -> budget.unknown > 0
    [] OTHER -> budget.other

Spent(s, m) ==
  CASE Malformed(m) -> Spend(s, "malformed")
    [] m.type = "response.output_audio.delta" -> Spend(s, "chunks")
    [] m.type \in Transcripts -> Spend(s, "texts")
    [] m.type \in Unrecognized -> Spend(s, "unknown")
    [] OTHER -> s

\* rcvd[w]: a session.updated has been delivered on connection w.
\* cycle[w]: the response cycle of connection w is "opened" when
\* response.created was the last of response.created and the assistant
\* deltas it delivered, and "running" when a delta was.
Received(s, w, m) ==
  CASE m.type = "session.updated" -> [s EXCEPT !.rcvd[w] = TRUE]
    [] m.type = "response.created" -> [s EXCEPT !.cycle[w] = "opened"]
    [] /\ m.type = "response.output_audio_transcript.delta"
       /\ m.text # << >>
       /\ s.cycle[w] = "opened"
         -> [s EXCEPT !.cycle[w] = "running"]
    [] OTHER -> s

ReceiveOf(w, m, eager) ==
  /\ readyState[w] = "OPEN"
  /\ Deliverable(w, m)
  /\ eager \/ m.type = "conversation.item.input_audio_transcription.completed"
  /\ Apply(Received(Spent(OnMessage(Cur, w, m, eager), m), w, m))

Receive ==
  \E w \in Attempts, m \in Messages, eager \in BOOLEAN : ReceiveOf(w, m, eager)

AudioWorkletLoaded ==
  \E k \in 1 .. Len(captures), ok \in BOOLEAN :
    /\ captures[k].phase = "loading"
    /\ ok \/ ctxState[captures[k].ctx] # "running"
    /\ Apply(CaptureStarted(Cur, k, ok))

\* The worklet of capture k posts a frame: its context still renders.
FrameCapturedOf(k) ==
  /\ captures[k].phase = "running"
  /\ ctxState[captures[k].ctx] \in {"running", "closing"}
  /\ budget.frames
  /\ Apply(OnFrame(Cur, k))

FrameCaptured == \E k \in 1 .. Len(captures) : FrameCapturedOf(k)

SourceEnded ==
  \E src \in sources :
    Apply(OnEnded([Cur EXCEPT !.sources = @ \ {src}]))

PressMute ==
  /\ callState \in {"connecting", "in_call"}
  /\ budget.toggles
  /\ Apply(ToggleMute(Cur))

PressSpeaker ==
  /\ callState \in {"connecting", "in_call"}
  /\ budget.toggles
  /\ Apply(ToggleSpeaker(Cur))

Tick ==
  /\ budget.ticks > 0
  /\ Apply(Spend([Cur EXCEPT !.clock = @ + 1], "ticks"))

Next ==
  \/ PressCall
  \/ PressHangUp
  \/ GetUserMediaResolves
  \/ GetUserMediaRejects
  \/ SessionRequestSucceeds
  \/ SessionRequestFails
  \/ ContextClosed
  \/ SocketOpens
  \/ SocketFails
  \/ SocketCloses
  \/ TimerFires
  \/ Receive
  \/ AudioWorkletLoaded
  \/ FrameCaptured
  \/ SourceEnded
  \/ PressMute
  \/ PressSpeaker
  \/ Tick

Spec == Init /\ [][Next]_vars

\* ------------------------------------------------- startCall as a function
\* startCall (lines 226-503) invoked whatever the call state is: the
\* function itself tests no state, only the call button does.
InvokeStartCall ==
  /\ NextAttempt <= budget.attempts
  /\ Apply(StartCall(Cur, NextAttempt))

ApiInit == Start({Handshakes})

ApiNext ==
  \/ InvokeStartCall
  \/ GetUserMediaResolves
  \/ SessionRequestSucceeds
  \/ SocketOpens
  \/ Receive
  \/ AudioWorkletLoaded

ApiSpec == ApiInit /\ [][ApiNext]_vars

\* ------------------------------------------------------ one call's audio
PlaybackInit == Start({Playback})

PlaybackNext ==
  \/ PressCall
  \/ GetUserMediaResolves
  \/ SessionRequestSucceeds
  \/ SocketOpens
  \/ Receive
  \/ AudioWorkletLoaded
  \/ FrameCaptured
  \/ SourceEnded
  \/ PressMute
  \/ PressSpeaker
  \/ Tick

PlaybackSpec == PlaybackInit /\ [][PlaybackNext]_vars

\* ------------------------------------------------------------- fairness
\* The browser settles the promise of audioContext.close() and fires a
\* timer that is due.
FairInit == Start({HangUp})

FairNext ==
  \/ PressCall
  \/ PressHangUp
  \/ GetUserMediaResolves
  \/ SessionRequestSucceeds
  \/ ContextClosed
  \/ SocketOpens
  \/ SocketCloses
  \/ TimerFires
  \/ Receive
  \/ AudioWorkletLoaded
  \/ FrameCaptured

FairSpec ==
  /\ FairInit
  /\ [][FairNext]_vars
  /\ WF_vars(ContextClosed)
  /\ WF_vars(TimerFires)

\* -------------------------------------------------------------- teardown
\* One call, torn down by the user, by a failure or by the remote side,
\* with release steps that throw.
TeardownInit == Start({Throwing})

TeardownNext ==
  \/ PressCall
  \/ PressHangUp
  \/ GetUserMediaResolves
  \/ GetUserMediaRejects
  \/ SessionRequestSucceeds
  \/ SessionRequestFails
  \/ ContextClosed
  \/ SocketOpens
  \/ SocketFails
  \/ SocketCloses
  \/ TimerFires
  \/ Receive
  \/ AudioWorkletLoaded
  \/ FrameCaptured

TeardownSpec == TeardownInit /\ [][TeardownNext]_vars

\* ------------------------------------------------------- dropped chunks
EnqueueInit == Start({Dropping})

EnqueueNext ==
  \/ PressCall
  \/ GetUserMediaResolves
  \/ SessionRequestSucceeds
  \/ SocketOpens
  \/ Receive
  \/ AudioWorkletLoaded
  \/ SourceEnded

EnqueueSpec == EnqueueInit /\ [][EnqueueNext]_vars

\* ----------------------------------------------------------- transcript
\* One call that receives transcript events, up to 2000 ms apart.
Dictation ==
  Scenario(1, 0, MaxDeltas, MaxGap, FALSE, FALSE, FALSE, FALSE, FALSE)

TranscriptInit == Start({Dictation})

TranscriptNext ==
  \/ PressCall
  \/ GetUserMediaResolves
  \/ SessionRequestSucceeds
  \/ SocketOpens
  \/ Receive
  \/ AudioWorkletLoaded
  \/ Tick

TranscriptSpec == TranscriptInit /\ [][TranscriptNext]_vars

\* The same call with the clock standing still.
Assembly == [Dictation EXCEPT !.ticks = 0]

AssemblyInit == Start({Assembly})

AssemblyNext ==
  \/ PressCall
  \/ GetUserMediaResolves
  \/ SessionRequestSucceeds
  \/ SocketOpens
  \/ Receive
  \/ AudioWorkletLoaded

AssemblySpec == AssemblyInit /\ [][AssemblyNext]_vars

\* ----------------------------------------------------------------- codec
\* One sample of the grid, encoded and decoded again; the page stays as
\* mounted.
Samples == (0 - Grid) .. Grid

CodecInit ==
  /\ Mounted({HangUp})
  /\ codec \in {[NoSample EXCEPT !.stage = "float", !.x = x] : x \in Samples}
  /\ processor = NoProcessor

Encode ==
  /\ codec.stage = "float"
  /\ codec' = [codec EXCEPT !.stage = "pcm",
                            !.bytes = Float32ToBase64(codec.x)]
  /\ UNCHANGED << callState, statusLine, muted, speaker, errorText,
                  callStartedAt, transcriptLines, wsRef, audioContextRef,
                  mediaStreamRef, workletNodeRef, audioQueue, isPlaying,
                  nextPlayTime, isSessionConfigured, lastUserTranscriptAt,
                  sessionConfig, hasGetUserMedia, pc, closure, readyState,
                  ctxState, ctxBase, closeWaiter, tracks, captures, sources,
                  timers, clock, asked, rcvd, cycle, outbox, accepted, sched,
                  released, releaseLog, budget, processor >>

Decode ==
  /\ codec.stage = "pcm"
  /\ codec' = [codec EXCEPT !.stage = "decoded",
                            !.y = SampleOfBase64(codec.bytes)]
  /\ UNCHANGED << callState, statusLine, muted, speaker, errorText,
                  callStartedAt, transcriptLines, wsRef, audioContextRef,
                  mediaStreamRef, workletNodeRef, audioQueue, isPlaying,
                  nextPlayTime, isSessionConfigured, lastUserTranscriptAt,
                  sessionConfig, hasGetUserMedia, pc, closure, readyState,
                  ctxState, ctxBase, closeWaiter, tracks, captures, sources,
                  timers, clock, asked, rcvd, cycle, outbox, accepted, sched,
                  released, releaseLog, budget, processor >>

CodecNext == Encode \/ Decode

CodecSpec == CodecInit /\ [][CodecNext]_vars

\* ---------------------------------------------------------------- events
\* One call that receives transcripts, status events, error events and
\* messages it does not recognize, with the clock standing still.
Events == [Transcript EXCEPT !.ticks = 0]

EventsInit == Start({Events})

EventsNext ==
  \/ PressCall
  \/ GetUserMediaResolves
  \/ SessionRequestSucceeds
  \/ SocketOpens
  \/ Receive
  \/ AudioWorkletLoaded

EventsSpec == EventsInit /\ [][EventsNext]_vars

\* ------------------------------------------------------- failed attempts
\* Calls that fail at the device or at the session request, or are hung up
\* and started again, before any connection opens.
FailedCalls ==
  Scenario(MaxAttempts, 0, 0, 0, TRUE, TRUE, FALSE, FALSE, FALSE)

FailInit == Start({FailedCalls})

FailNext ==
  \/ PressCall
  \/ PressHangUp
  \/ GetUserMediaResolves
  \/ GetUserMediaRejects
  \/ SessionRequestSucceeds
  \/ SessionRequestFails
  \/ ContextClosed
  \/ TimerFires

FailSpec == FailInit /\ [][FailNext]_vars

\* One call that receives assistant deltas, user completions and the
\* status events of the response cycles.
Responses == [Assembly EXCEPT !.other = TRUE]

ResponsesInit == Start({Responses})

ResponsesNext ==
  \/ PressCall
  \/ GetUserMediaResolves
  \/ SessionRequestSucceeds
  \/ SocketOpens
  \/ Receive
  \/ AudioWorkletLoaded

ResponsesSpec == ResponsesInit /\ [][ResponsesNext]_vars

\* Calls that the user hangs up, with an audio delta delivered before or
\* after a hang-up.
LateAudio ==
  Scenario(MaxCalls, 1, 0, 0, TRUE, FALSE, FALSE, FALSE, FALSE)

LateAudioInit == Start({LateAudio})

LateAudioNext ==
  \/ PressCall
  \/ PressHangUp
  \/ GetUserMediaResolves
  \/ SessionRequestSucceeds
  \/ ContextClosed
  \/ SocketOpens
  \/ Receive
  \/ SourceEnded

LateAudioSpec == LateAudioInit /\ [][LateAudioNext]_vars

\* ------------------------------------------------- samples out of range
\* float32ToBase64 on the samples from -2 to 2.
Loud == (0 - 2 * Grid) .. (2 * Grid)

ClampInit ==
  /\ Mounted({HangUp})
  /\ codec \in {[NoSample EXCEPT !.stage = "float", !.x = x] : x \in Loud}
  /\ processor = NoProcessor

ClampNext == Encode

ClampSpec == ClampInit /\ [][ClampNext]_vars

\* ------------------------------------------------------ capture worklet
\* One AudioProcessor, made for an audio context of any sample rate, and
\* the blocks the audio graph hands to it.  A sample is named by its place
\* in the input: the k-th sample the processor is given is k.
Rates == 1 .. MaxRate

RECURSIVE Flatten(_)
Flatten(q) == IF q = << >> THEN << >> ELSE Head(q) \o Flatten(Tail(q))

WorkletInit ==
  /\ Mounted({HangUp})
  /\ codec = NoSample
  /\ processor \in {NewProcessor(ChunkSizeSamples(r)) : r \in Rates}

ProcessBlock ==
  \E connected \in BOOLEAN, n \in 0 .. MaxBlock :
    /\ Len(processor.inputs) < MaxBlocks
    /\ connected \/ n = 0
    /\ LET fed == Len(Flatten(processor.inputs))
       IN  processor' = Process(processor, connected,
                                [i \in 1 .. n |-> fed + i])
    /\ UNCHANGED << callState, statusLine, muted, speaker, errorText,
                    callStartedAt, transcriptLines, wsRef, audioContextRef,
                    mediaStreamRef, workletNodeRef, audioQueue, isPlaying,
                    nextPlayTime, isSessionConfigured, lastUserTranscriptAt,
                    sessionConfig, hasGetUserMedia, pc, closure, readyState,
                    ctxState, ctxBase, closeWaiter, tracks, captures, sources,
                    timers, clock, asked, rcvd, cycle, outbox, accepted, sched,
                    released, releaseLog, budget, codec >>

WorkletNext == ProcessBlock

WorkletSpec == WorkletInit /\ [][WorkletNext]_vars

\* ----------------------------------------------------------- properties
\* What the step just taken sent of one type.
Sent(type) == {i \in 1 .. Len(outbox) : outbox[i].type = type}

SessionUpdated ==
  [type |-> "session.updated", delta |-> [form |-> "empty", bytes |-> 0],
   text |-> << >>]
AudioDelta(d) ==
  [type |-> "response.output_audio.delta", delta |-> d, text |-> << >>]

Greeting(w) ==
  << [ws |-> w, type |-> "input_audio_buffer.commit"],
     [ws |-> w, type |-> "conversation.item.create"],
     [ws |-> w, type |-> "response.create"] >>

\* C2: the opening greeting is sent exactly once in a call attempt.  The
\* first session.updated that the attempt's connection delivers makes the
\* call in_call and sends input_audio_buffer.commit, conversation.item.create
\* and response.create on it; a session.updated on a connection that has
\* delivered one before is ignored: nothing is sent, no capture is started
\* and the call state and the call-start timestamp stay as they were.
C2_GreetingOnce ==
  [][\A w \in Attempts :
       ReceiveOf(w, SessionUpdated, TRUE) =>
         IF rcvd[w]
           THEN /\ outbox' = << >>
                /\ UNCHANGED << captures, callState, callStartedAt >>
           ELSE wsRef = w =>
                  /\ callState' = "in_call"
                  /\ outbox' = Greeting(w)]_vars

\* C3: no input_audio_buffer.append is sent on a connection before that
\* connection has delivered session.updated.
C3_NoAudioBeforeHandshake ==
  \A i \in Sent("input_audio_buffer.append") : rcvd[outbox[i].ws]

\* C4: the capture pipeline is started at most once for a call attempt and
\* only once the attempt's connection has delivered session.updated, and
\* the configured flag goes back to false only where startCall prepares the
\* next connection.
C4_CaptureOncePerAttempt ==
  [][/\ \A k \in 1 .. Len(captures') : rcvd'[captures'[k].ws]
     /\ \A j, k \in 1 .. Len(captures') :
          captures'[j].ws = captures'[k].ws => j = k
     /\ (isSessionConfigured /\ ~isSessionConfigured') =>
          \E i \in Attempts : pc[i] = "cred" /\ pc'[i] = "done"]_vars

\* C5: a frame produced while the mute flag is on sends no
\* input_audio_buffer.append, and a frame produced while it is off, on an
\* open connection after the handshake, sends one.
C5_MuteSuppresses ==
  [][\A k \in 1 .. Len(captures) :
       FrameCapturedOf(k) =>
         /\ muted => outbox' = << >>
         /\ (/\ ~muted
             /\ isSessionConfigured
             /\ readyState[captures[k].ws] = "OPEN")
              => outbox' = << [ws |-> captures[k].ws,
                               type |-> "input_audio_buffer.append"] >>]_vars

\* C6: an audio delta that arrives while the speaker flag is off leaves
\* the playback queue and the schedule as they were, and a well-formed one
\* that arrives while the flag is on is taken into the queue.
C6_SpeakerGatesEnqueue ==
  [][\A w \in Attempts, d \in Deltas :
       ReceiveOf(w, AudioDelta(d), TRUE) =>
         IF speaker
           THEN (d.form # "empty" /\ ~Base64ToFloat32(d).throws)
                   => accepted' = accepted + 1
           ELSE UNCHANGED << audioQueue, sched, accepted, isPlaying,
                             nextPlayTime >>]_vars

\* The chunks scheduled on audio context c, in the order of scheduling.
ScheduledOn(c) == SelectSeq(sched, LAMBDA e : e.ctx = c)

\* C7: on one audio context every chunk starts no earlier than the time at
\* which it is scheduled and no earlier than the end of the chunk scheduled
\* before it: the first starts at once, a later one at the later of the
\* current time and the end of its predecessor.
C7_NoOverlap ==
  \A c \in Attempts :
    LET q == ScheduledOn(c) IN
    \A j \in 1 .. Len(q) :
      /\ q[j].start >= q[j].now
      /\ j = 1 => q[j].start = q[j].now
      /\ j > 1 =>
           /\ q[j].start >= q[j - 1].start + q[j - 1].duration
           /\ q[j].start >= q[j - 1].start
           /\ q[j].start = Max(q[j].now, q[j - 1].start + q[j - 1].duration)

\* Two chunks on one context, the second scheduled while the first still
\* plays and so started later than the time of scheduling.
C7_Witness ==
  \E c \in Attempts :
    /\ Len(ScheduledOn(c)) >= 2
    /\ ScheduledOn(c)[2].start > ScheduledOn(c)[2].now
    /\ ScheduledOn(c)[2].now > ScheduledOn(c)[1].now

Ids(q) == [i \in 1 .. Len(q) |-> q[i].id]
Range(q) == {q[i] : i \in 1 .. Len(q)}
Increasing(q) == \A i, j \in 1 .. Len(q) : i < j => q[i] < q[j]

\* C8: in a step that leaves the speaker on and the audio context in
\* place, no chunk is lost and none overtakes another: every chunk that
\* waited in the queue, and every chunk the step accepted, is afterwards
\* waiting or scheduled, and the scheduled chunks followed by the waiting
\* ones are in the order of arrival, each once.
C8_FifoLossless ==
  [][(/\ speaker /\ speaker'
      /\ audioContextRef # NULL
      /\ audioContextRef' = audioContextRef) =>
       /\ Range(Ids(audioQueue)) \cup (accepted + 1 .. accepted')
            \subseteq Range(Ids(audioQueue')) \cup Range(Ids(sched'))
       /\ Increasing(Ids(sched') \o Ids(audioQueue'))]_vars

\* stopCall(false) resumes after its await: at the close of the context it
\* waited for, or in the turn of the hang-up when it had no context.
UserStopResumes ==
  \/ PressHangUp /\ audioContextRef = NULL
  \/ \E c \in Attempts : closeWaiter[c] = "user" /\ ContextClosedOf(c)

\* C9: a stopCall(false) sets the call state to ended when it resumes, the
\* cooldown timer sets it to idle when it fires, and so a hang-up leads to
\* ended and ended leads to idle.
C9_EndedThenIdle ==
  /\ [][UserStopResumes => callState' = "ended" /\ timers' = timers + 1]_vars
  /\ [][TimerFires => callState' = "idle"]_vars
  /\ (\E c \in Attempts : closeWaiter[c] = "user") ~> (callState = "ended")
  /\ (callState = "ended") ~> (callState = "idle")

\* A call was hung up, its context is closed, the timer has fired.
C9_Witness ==
  /\ callState = "idle"
  /\ timers = 0
  /\ \E c \in Attempts : ctxState[c] = "closed" /\ readyState[c] = "CLOSED"

\* C10: when the current connection closes while the call is connecting or
\* in_call, the teardown it starts ends with the call state idle, and the
\* call state is not ended on the way.
C10_SilentTeardownToIdle ==
  [][\A c \in Attempts :
       (/\ ContextClosedOf(c)
        /\ closeWaiter[c] = "silent"
        /\ readyState[c] = "CLOSED"
        /\ callState \in {"connecting", "in_call"})
         => callState' = "idle"]_vars

\* Attempt i has been torn down: stopCall has released its audio context.
TornDown(i) == ctxState[i] \in {"closing", "closed"}

\* C11: a stopCall during a startCall in flight cancels the attempt: once
\* the attempt is torn down its microphone stream is not live and its
\* connection is not open, and while no attempt is left that was not torn
\* down the call state does not become in_call.
C11_CancelInFlight ==
  [][/\ \A i \in Attempts :
          TornDown(i)' => tracks'[i] # "live" /\ readyState'[i] # "OPEN"
     /\ ((\A i \in Attempts : ctxState[i] # "running")
           /\ callState # "in_call") => callState' # "in_call"]_vars
\* C12: over every interleaving of stopCall invocations with each other, with
\* the close of the audio context and with inbound events, no resource
\* (connection, capture node, microphone stream, audio context) is released
\* more than once; a release step that throws is absorbed in stopCall.
C12_ReleasedAtMostOnce ==
  \A r \in BagToSet(released) : CopiesIn(r, released) <= 1

\* A second stopCall has run to its end while the first waits for the audio
\* context to close.
C12_Witness ==
  /\ ctxState[1] = "closing"
  /\ closeWaiter[1] = "user"
  /\ ctxState[2] = "none"
  /\ callState = "ended"
  /\ CopiesIn(<< "ctx", 1 >>, released) = 1

\* The release steps that come after step f in stopCall.
StepsAfter(f) ==
  CASE f = "ws" -> {"node", "tracks", "ctx"}
    [] f = "node" -> {"tracks", "ctx"}
    [] f = "tracks" -> {"ctx"}
    [] OTHER -> {}

\* C13: when one release step of stopCall throws, every later step is still
\* carried out on the resource the refs held (node disconnected, tracks
\* stopped, audio context closing), and the state update at the end is made,
\* at once or, while the context closes, left to the pending continuation.
C13_StepsIsolated ==
  [][\A f \in ReleaseSteps :
       PressHangUpOf({f}) =>
         /\ ("node" \in StepsAfter(f) /\ workletNodeRef # NULL)
              => ~captures'[workletNodeRef].connected
         /\ ("tracks" \in StepsAfter(f) /\ mediaStreamRef # NULL)
              => tracks'[mediaStreamRef] = "stopped"
         /\ ("ctx" \in StepsAfter(f) /\ audioContextRef # NULL)
              => /\ ctxState'[audioContextRef] = "closing"
                 /\ closeWaiter'[audioContextRef] = "user"
         /\ (f = "ctx" \/ audioContextRef = NULL)
              => callState' = "ended" /\ ~muted' /\ callStartedAt' = NULL
         /\ wsRef' = NULL /\ mediaStreamRef' = NULL
         /\ audioContextRef' = NULL /\ workletNodeRef' = NULL]_vars

\* ws.close() threw in a hang-up (the connection is still open although its
\* release was attempted); the tracks were stopped, the context was closed
\* and the call has ended all the same.
C13_Witness ==
  /\ CopiesIn(<< "ws", 1 >>, released) = 1
  /\ readyState[1] = "OPEN"
  /\ tracks[1] = "stopped"
  /\ ctxState[1] = "closed"
  /\ callState = "ended"

\* Attempt i failed at the device: it is over, an audio context was made
\* for it and no stream was ever granted to it.
MicFailed(i) ==
  pc[i] = "done" /\ ctxState[i] # "none" /\ tracks[i] = "none"

\* C14: a capture-device failure (getUserMedia missing or rejecting) puts
\* the call state to error with the device's message; the attempt makes no
\* session request, never has a connection or a capture pipeline, and its
\* audio context is closed.
C14_DeviceFailure ==
  [][/\ \A i \in Attempts :
          GetUserMediaRejectsOf(i) =>
            /\ callState' = "error"
            /\ errorText' = "device error"
            /\ pc'[i] = "done"
     /\ (PressCall /\ ~hasGetUserMedia) =>
            /\ callState' = "error"
            /\ errorText' = "no getUserMedia"
            /\ pc'[NextAttempt] = "done"
            /\ UNCHANGED << ctxState, tracks, readyState, captures >>
            /\ outbox' = << >>
     /\ \A i \in Attempts :
          MicFailed(i)' =>
            /\ ctxState'[i] \in {"closing", "closed"}
            /\ readyState'[i] = "none"
            /\ \A k \in DOMAIN captures' :
                 captures'[k].ctx # i /\ captures'[k].ws # i]_vars

\* C15: a failed session request puts the call state to error with the
\* service's message, leaves the stream of the attempt stopped and its audio
\* context closed, and opens no connection for the attempt.
C15_CredentialFailure ==
  [][\A i \in Attempts :
       SessionRequestFailsOf(i) =>
         /\ callState' = "error"
         /\ errorText' = "session error"
         /\ pc'[i] = "done"
         /\ tracks'[i] = "stopped"
         /\ ctxState'[i] \in {"closing", "closed"}
         /\ readyState'[i] = "none"]_vars

\* C16: every open connection is the one wsRef holds and every live
\* microphone stream is the one mediaStreamRef holds; so at most one
\* connection is open and at most one stream is live.
C16_ExclusiveOwnership ==
  /\ \A w \in Attempts : readyState[w] = "OPEN" => wsRef = w
  /\ \A i \in Attempts : tracks[i] = "live" => mediaStreamRef = i

\* C17: a transport error event received while the call state is in_call
\* does not put the call state to error and announces no failure message.
C17_SilentDisconnect ==
  [][\A w \in Attempts :
       (SocketFailsOf(w) /\ callState = "in_call") =>
         callState' # "error" /\ errorText' = errorText]_vars

\* C18: a message that is not JSON, not an object, without a string type
\* or of an unrecognized type changes nothing: call state, configured flag,
\* transcript, playback state, status line, error text and the four refs
\* stay as they are, and nothing is sent.
C18_UnrecognizedIgnored ==
  [][\A w \in Attempts, m \in Messages :
       (m.type \in Unrecognized /\ ReceiveOf(w, m, TRUE)) =>
         /\ UNCHANGED << callState, isSessionConfigured, transcriptLines,
                         audioQueue, isPlaying, nextPlayTime, statusLine,
                         errorText, wsRef, audioContextRef, mediaStreamRef,
                         workletNodeRef, readyState, sched, sources >>
         /\ outbox' = << >>]_vars

\* An unrecognized message was received in a call that has a transcript.
C18_Witness ==
  /\ budget.unknown < MaxUnknown
  /\ callState = "in_call"
  /\ transcriptLines # << >>

\* C19: an error event from the remote side records its message (the
\* default text when it carries none) and leaves the call state, the
\* connection, the capture pipeline, the playback queue, the configured flag
\* and the transcript as they are.
C19_RemoteErrorNonFatal ==
  [][\A w \in Attempts, m \in Messages :
       (m.type = "error" /\ ReceiveOf(w, m, TRUE)) =>
         /\ errorText' = IF m.text = << >> THEN "Unknown error from xAI"
                                           ELSE "remote error"
         /\ UNCHANGED << callState, callStartedAt, wsRef, readyState,
                         mediaStreamRef, tracks, workletNodeRef, captures,
                         audioContextRef, ctxState, audioQueue, isPlaying,
                         nextPlayTime, isSessionConfigured, transcriptLines >>
         /\ outbox' = << >>]_vars

\* The remote side has reported an error with a message of its own during
\* a call, and the call goes on.
C19_Witness ==
  /\ errorText = "remote error"
  /\ callState = "in_call"
  /\ readyState[1] = "OPEN"
  /\ transcriptLines # << >>

\* An audio delta of a whole number of samples, one at least.
WellFormed(m) ==
  /\ m.type = "response.output_audio.delta"
  /\ m.delta.form = "pcm" /\ m.delta.bytes % 2 = 0

\* C20: a malformed audio delta is dropped and nothing else: the playback
\* queue, the draining flag, the cursor, what is scheduled, the call state
\* and the connection stay as they are; a well-formed delta received with
\* the speaker on is enqueued, and scheduled at once when nothing is
\* draining.
C20_MalformedChunkDropped ==
  [][\A w \in Attempts, m \in Messages :
       /\ (Malformed(m) /\ ReceiveOf(w, m, TRUE)) =>
             /\ UNCHANGED << audioQueue, isPlaying, nextPlayTime, accepted,
                             sched, sources, callState, wsRef, readyState,
                             isSessionConfigured, errorText >>
             /\ outbox' = << >>
       /\ (WellFormed(m) /\ ReceiveOf(w, m, TRUE) /\ closure[w].speaker) =>
             /\ accepted' = accepted + 1
             /\ isPlaying =>
                   /\ audioQueue' = Append(audioQueue,
                                           [id |-> accepted',
                                            samples |-> m.delta.bytes \div 2])
                   /\ UNCHANGED sched
             /\ (~isPlaying /\ audioContextRef # NULL) =>
                   /\ Len(sched') = Len(sched) + 1
                   /\ Last(sched').id = accepted'
                   /\ isPlaying']_vars

\* A malformed delta was received in a call and both well-formed deltas of
\* the call were scheduled.
C20_Witness ==
  /\ budget.malformed < MaxMalformed
  /\ callState = "in_call"
  /\ accepted = MaxChunks
  /\ Len(sched) = MaxChunks

\* C21: a sample x in [-1, 1] that is encoded and decoded again differs
\* from x by at most 1 / 32768:  | y / 32768 - x / Grid | <= 1 / 32768.
C21_RoundTrip ==
  codec.stage = "decoded" =>
    LET d == codec.y * Grid - codec.x * 32768
    IN  d <= Grid /\ 0 - d <= Grid

\* A user completion with a text.
UserCompletion(m) ==
  /\ m.type = "conversation.item.input_audio_transcription.completed"
  /\ m.text # << >>

\* C22: a user completion with a text is merged into the last utterance,
\* joined by one space, if and only if that utterance is a user's and the
\* previous user completion arrived less than 1500 ms before; otherwise it
\* is appended as a new user utterance.  This holds whether the update
\* function runs at once or at the next render.
C22_UserMerge ==
  [][\A w \in Attempts, m \in Messages, eager \in BOOLEAN :
       (UserCompletion(m) /\ ReceiveOf(w, m, eager)) =>
         transcriptLines' =
           IF /\ transcriptLines # << >>
              /\ Last(transcriptLines).role = "user"
              /\ lastUserTranscriptAt # NULL
              /\ clock - lastUserTranscriptAt < MergeWindow
             THEN Append(Front(transcriptLines),
                         [role |-> "user",
                          text |-> Last(transcriptLines).text
                                     \o <<" ">> \o m.text])
             ELSE Append(transcriptLines,
                         [role |-> "user", text |-> m.text])]_vars

\* An assistant transcript delta with a text.
AssistantPiece(m) ==
  m.type = "response.output_audio_transcript.delta" /\ m.text # << >>

\* C23: assistant deltas that follow one another make one assistant
\* utterance, the concatenation of their texts in the order of arrival with
\* nothing between them: the first one after another speaker's utterance
\* (or in an empty transcript) begins an utterance with its text, each
\* later one is put at the end of that utterance, and no two assistant
\* utterances are ever next to each other.
C23_AssistantAssembly ==
  [][/\ \A w \in Attempts, m \in Messages :
          (AssistantPiece(m) /\ ReceiveOf(w, m, TRUE)) =>
            transcriptLines' =
              IF /\ transcriptLines # << >>
                 /\ Last(transcriptLines).role = "assistant"
                THEN Append(Front(transcriptLines),
                            [role |-> "assistant",
                             text |-> Last(transcriptLines).text \o m.text])
                ELSE Append(transcriptLines,
                            [role |-> "assistant", text |-> m.text])
     /\ \A i \in 1 .. Len(transcriptLines') - 1 :
          ~ /\ transcriptLines'[i].role = "assistant"
            /\ transcriptLines'[i + 1].role = "assistant"]_vars

\* Three deltas "a", "b", "a" have made the one utterance "aba".
C23_Witness ==
  transcriptLines = << [role |-> "assistant", text |-> <<"a", "b", "a">>] >>

\* C24: the call state becomes in_call only from connecting, and only in
\* the handler of a session.updated event received on the connection that
\* wsRef holds; a session.updated received in idle, ended or error does
\* not make the call state in_call.
C24_ActiveOnlyByHandshake ==
  [][/\ (callState # "in_call" /\ callState' = "in_call") =>
          /\ callState = "connecting"
          /\ wsRef # NULL
          /\ ReceiveOf(wsRef, SessionUpdated, TRUE)
     /\ \A w \in Attempts :
          (ReceiveOf(w, SessionUpdated, TRUE)
             /\ callState \in {"idle", "ended", "error"})
            => callState' # "in_call"]_vars

\* C25: while the call state is error, no step other than the user's
\* pressing the call button starts a microphone request, a session request
\* or a connection, or puts the call state to connecting or in_call.
C25_NoAutomaticRetry ==
  [][(callState = "error" /\ ~PressCall) =>
       /\ \A i \in Attempts :
            /\ pc'[i] = "mic" => pc[i] = "mic"
            /\ pc'[i] = "cred" => pc[i] = "cred"
            /\ readyState'[i] = "CONNECTING" => readyState[i] = "CONNECTING"
       /\ callState' \notin {"connecting", "in_call"}]_vars

\* The message conversation.created as an inbound message.
ConversationCreated ==
  [type |-> "conversation.created", delta |-> [form |-> "empty", bytes |-> 0],
   text |-> << >>]

\* The messages that follow the session.update of a connection.
AfterSessionUpdate ==
  {"input_audio_buffer.commit", "conversation.item.create",
   "response.create", "input_audio_buffer.append"}

\* C26: a session.update is sent only by the handler of a
\* conversation.created event, on the connection that delivered the event
\* and while a session configuration is held; and a commit, a
\* conversation.item.create, a response.create or an append is sent on a
\* connection only after a session.update was sent on it.
C26_SessionUpdateFirst ==
  [][/\ \A i \in DOMAIN outbox' :
          outbox'[i].type = "session.update" =>
            /\ sessionConfig # NULL
            /\ ReceiveOf(outbox'[i].ws, ConversationCreated, TRUE)
     /\ \A i \in DOMAIN outbox' :
          outbox'[i].type \in AfterSessionUpdate => asked[outbox'[i].ws]]_vars

\* C27: the first session.updated that the connection of an attempt
\* delivers sends input_audio_buffer.commit, the greeting
\* conversation.item.create and response.create on it, in this order, and
\* then starts the capture pipeline on that connection; no
\* input_audio_buffer.append is sent on a connection before its
\* response.create.
C27_GreetingThenCapture ==
  [][/\ \A w \in Attempts :
          (ReceiveOf(w, SessionUpdated, TRUE) /\ ~rcvd[w]) =>
            /\ outbox' = Greeting(w)
            /\ Len(captures') = Len(captures) + 1
            /\ Last(captures').ws = w
            /\ Last(captures').phase = "loading"
     /\ \A i \in DOMAIN outbox' :
          outbox'[i].type = "input_audio_buffer.append"
            => rcvd[outbox'[i].ws]]_vars

\* The release calls that a teardown makes on what the refs hold: close()
\* on the audio context, stop() on the tracks of the stream, disconnect()
\* on the capture node, and no close() on a connection that has closed.
HeldResources ==
  {<< "node", workletNodeRef >>, << "tracks", mediaStreamRef >>,
   << "ctx", audioContextRef >>}

Held == {r \in HeldResources : r[2] # NULL}

\* The connection w closes and the user did not close it.
ClosedByPeer(w) ==
  \/ SocketFailsOf(w)
  \/ SocketClosesOf(w) /\ readyState[w] = "OPEN"

\* C28: when the connection that wsRef holds closes and the user did not
\* close it, whatever the stage of the handshake, one silent teardown runs:
\* the capture node, the tracks and the audio context that the refs hold
\* are released, once each, the refs and the session configuration are
\* cleared, the call state does not become ended and no timer is armed.
\* The close event that ends a closing handshake begun by stopCall
\* releases nothing and changes neither the refs nor the call state.
C28_CloseTearsDownOnce ==
  [][\A w \in Attempts :
       /\ (ClosedByPeer(w) /\ wsRef = w) =>
            /\ released' = released (+) SetToBag(Held)
            /\ workletNodeRef # NULL => ~captures'[workletNodeRef].connected
            /\ mediaStreamRef # NULL => tracks'[mediaStreamRef] = "stopped"
            /\ audioContextRef # NULL
                 => ctxState'[audioContextRef] \in {"closing", "closed"}
            /\ sessionConfig' = NULL /\ ~isSessionConfigured'
            /\ wsRef' = NULL /\ mediaStreamRef' = NULL
            /\ audioContextRef' = NULL /\ workletNodeRef' = NULL
            /\ callState' = "ended" => callState = "ended"
            /\ timers' = timers
       /\ (SocketClosesOf(w) /\ readyState[w] = "CLOSING") =>
            UNCHANGED << released, wsRef, mediaStreamRef, audioContextRef,
                         workletNodeRef, sessionConfig, isSessionConfigured,
                         callState, timers, tracks, ctxState, captures,
                         closeWaiter >>]_vars

\* The remote side closed the connection of a call with its capture
\* running: the node, the tracks and the audio context were released.
C28_Witness ==
  /\ readyState[1] = "CLOSED"
  /\ released = SetToBag({<< "node", 1 >>, << "tracks", 1 >>, << "ctx", 1 >>})
  /\ closeWaiter[1] = "silent"
  /\ wsRef = NULL /\ sessionConfig = NULL

\* The place of a release step in the order of stopCall.
Rank(kind) ==
  CASE kind = "ws" -> 1
    [] kind = "node" -> 2
    [] kind = "tracks" -> 3
    [] OTHER -> 4

\* The release calls stopCall is to make on what the refs hold now:
\* close() on the connection if it is open, disconnect() on the capture
\* node, stop() on the tracks, close() on the audio context; a ref that
\* holds nothing has no call.
Planned ==
  SelectSeq(<< << "ws", wsRef >>, << "node", workletNodeRef >>,
               << "tracks", mediaStreamRef >>, << "ctx", audioContextRef >> >>,
            LAMBDA r : /\ r[2] # NULL
                       /\ r[1] = "ws" => readyState[r[2]] = "OPEN")

\* C29: the release calls of a step are made in the order connection,
\* capture node, tracks, audio context, whatever the state stopCall is
\* entered in; a hang-up makes exactly the calls for what the refs hold,
\* in that order, and a step that has nothing to release is left out.
C29_ReleaseOrder ==
  [][/\ \A i, j \in DOMAIN releaseLog' :
          i < j => Rank(releaseLog'[i][1]) < Rank(releaseLog'[j][1])
     /\ \A fails \in Failures :
          PressHangUpOf(fails) => releaseLog' = Planned]_vars

\* A hang-up released all four resources of a call, in order.
C29_Witness ==
  /\ releaseLog = << << "ws", 1 >>, << "node", 1 >>, << "tracks", 1 >>,
                     << "ctx", 1 >> >>
  /\ callState = "in_call"
  /\ closeWaiter[1] = "user"

\* C30: turning the speaker off empties the playback queue and puts the
\* draining flag to false at once, and leaves what is scheduled as it is;
\* turning it on again leaves the queue empty and schedules nothing.
C30_SpeakerOffClears ==
  [][PressSpeaker =>
       IF speaker
         THEN /\ audioQueue' = << >>
              /\ ~isPlaying'
              /\ UNCHANGED << sched, sources, nextPlayTime >>
         ELSE /\ audioQueue' = << >>
              /\ UNCHANGED << sched, sources >>]_vars

\* C31: every frame the processor has posted holds exactly bufferSize
\* samples; the posted frames one after the other, followed by the buffer,
\* are the input blocks one after the other; and after a call of process()
\* the buffer holds fewer than bufferSize samples.
C31_ChunkingConserves ==
  processor.bufferSize > 0 =>
    /\ \A i \in DOMAIN processor.posted :
         Len(processor.posted[i]) = processor.bufferSize
    /\ Flatten(processor.posted) \o processor.buffer
         = Flatten(processor.inputs)
    /\ Len(processor.buffer) < processor.bufferSize

\* A processor with frames of two samples has posted two frames, one of
\* them made of samples of two blocks, and keeps a sample.
C31_Witness ==
  /\ processor.bufferSize = 2
  /\ processor.inputs = << <<1>>, <<2, 3, 4>>, <<5>> >>
  /\ processor.posted = << <<1, 2>>, <<3, 4>> >>
  /\ processor.buffer = <<5>>

\* C32: the integer float32ToBase64 stores for a sample lies in
\* -32768 .. 32767 and is the clamped sample scaled, not a wrapped value:
\* it is -32768 for a sample of -1 or less, 32767 for a sample of 1 or
\* more, 0 for 0, and not greater than the integer of the next sample up.
C32_EncodeClamps ==
  codec.stage = "pcm" =>
    LET n == Int16Of(codec.bytes)
    IN  /\ n \in -32768 .. 32767
        /\ codec.x <= 0 - Grid => n = -32768
        /\ codec.x >= Grid => n = 32767
        /\ codec.x = 0 => n = 0
        /\ codec.x < 0 => n <= 0
        /\ codec.x > 0 => n >= 0
        /\ n <= Int16Of(Float32ToBase64(codec.x + 1))

\* A sample of 2 has been encoded.
C32_Witness ==
  /\ codec.stage = "pcm"
  /\ codec.x = 2 * Grid
  /\ codec.bytes = << 255, 127 >>

\* C33: the first assistant delta after a response.created begins a new
\* utterance, and a delta that follows another delta of its response cycle
\* is joined to the utterance that ends with that delta.
C33_UtterancePerResponse ==
  [][\A w \in Attempts, m \in Messages :
       (AssistantPiece(m) /\ ReceiveOf(w, m, TRUE)) =>
         /\ cycle[w] = "opened" =>
              transcriptLines' =
                Append(transcriptLines, [role |-> "assistant", text |-> m.text])
         /\ cycle[w] = "running" =>
              /\ transcriptLines # << >>
              /\ Last(transcriptLines).role = "assistant"
              /\ transcriptLines' =
                   Append(Front(transcriptLines),
                          [role |-> "assistant",
                           text |-> Last(transcriptLines).text \o m.text])]_vars

\* C34: in a call attempt the session request is sent only once the
\* microphone stream is granted, and the connection is created only once
\* the session request is answered; an attempt whose device request is
\* rejected has sent no session request and has no connection, then or
\* later.
C34_AcquisitionOrder ==
  [][\A i \in Attempts :
       /\ (pc'[i] = "cred" /\ pc[i] # "cred") =>
            /\ pc[i] = "mic"
            /\ tracks[i] = "none" /\ tracks'[i] = "live"
            /\ readyState'[i] = "none"
       /\ (readyState'[i] # "none" /\ readyState[i] = "none") =>
            /\ pc[i] = "cred" /\ pc'[i] = "done"
            /\ tracks[i] # "none"
       /\ GetUserMediaRejectsOf(i) =>
            /\ pc'[i] = "done" /\ callState' = "error"
            /\ tracks'[i] = "none" /\ readyState'[i] = "none"
       /\ MicFailed(i) => MicFailed(i)']_vars

\* The connection of an attempt has been created: its stream was granted
\* and its session request answered before.
C34_Witness ==
  /\ readyState[1] = "CONNECTING"
  /\ tracks[1] = "live"
  /\ pc[1] = "done"

\* C35: the timer that a hang-up armed leaves the call state as it is
\* when it fires while a call is connecting or in_call.
C35_CooldownOnlyFromEnded ==
  [][(TimerFires /\ callState \in {"connecting", "in_call"})
       => callState' = callState]_vars

\* A message, error or close event of connection w is handled.
EventOf(w) ==
  \/ \E m \in Messages, eager \in BOOLEAN : ReceiveOf(w, m, eager)
  \/ SocketFailsOf(w)
  \/ SocketClosesOf(w)

\* C36: an event of a connection that wsRef does not hold (stopCall has
\* run, or a later startCall has put its own connection in its place)
\* changes neither the call state, the configured flag, the transcript nor
\* the playback queue, sends nothing and starts no capture.
C36_StaleEventsInert ==
  [][\A w \in Attempts :
       (EventOf(w) /\ wsRef # w) =>
         /\ UNCHANGED << callState, isSessionConfigured, transcriptLines,
                         audioQueue, captures >>
         /\ outbox' = << >>]_vars

\* C37: while the call state is in_call the refs hold a connection, a
\* microphone stream and an audio context, and the call-start timestamp is
\* set.
C37_ActiveHoldsResources ==
  callState = "in_call" =>
    /\ wsRef # NULL
    /\ mediaStreamRef # NULL
    /\ audioContextRef # NULL
    /\ callStartedAt # NULL

\* The playback state as stopCall leaves it.
Clean == audioQueue = << >> /\ ~isPlaying /\ nextPlayTime = 0

\* C38: a hang-up leaves the playback queue empty, the draining flag false
\* and the cursor 0, and from then on only an audio delta delivered on the
\* connection that wsRef holds, that of a later call, changes them.
C38_CleanAfterTeardown ==
  [][/\ PressHangUp => Clean'
     /\ (Clean /\ ~Clean') =>
          \E w \in Attempts, d \in Deltas :
            wsRef = w /\ ReceiveOf(w, AudioDelta(d), TRUE)]_vars

\* C39: in a call in progress, whenever the playback queue is not empty
\* the draining flag is true and a chunk scheduled on the audio context of
\* the call has its completion callback pending.
C39_DrainFlagConsistent ==
  (callState = "in_call" /\ audioContextRef # NULL /\ audioQueue # << >>) =>
    /\ isPlaying
    /\ \E src \in sources : src.ctx = audioContextRef
====
